---- MODULE Spec2Model ----
(***************************************************************************)
(* Model of the two chained HTTP services of brasil-weather-report:        *)
(*   Service A (servico_a/main.go): handleCepRequest,                      *)
(*                                  forwardRequestToServiceB               *)
(*   Service B (servico_b/main.go): weatherHandler, SearchCep, GetWeather  *)
(* A request id r stands for one client exchange: either a request to      *)
(* Service A (which may produce a request to Service B), or a request a    *)
(* client sends to Service B directly.                                     *)
(*                                                                         *)
(* Strings that the code inspects character by character (postal codes,    *)
(* URL paths) are sequences of one-character strings; other texts are TLA+ *)
(* strings.  Temperatures are fixed-point integers in 1/100 degree.        *)
(***************************************************************************)
EXTENDS Integers, Sequences, FiniteSets, TLC

VARIABLES
    aPc,        \* Service A: position of each request's handler
    aReq,       \* Service A: the request received (method, body)
    aResp,      \* Service A: the response written
    aSteps,     \* Service A: the handler steps executed, in order
    bPc,        \* Service B: position of each request's handler
    bReq,       \* Service B: the request received (path, origin)
    bResp,      \* Service B: the response written
    bSteps,     \* Service B: the pipeline steps executed, in order
    locArg,     \* Service B: the codes passed to SearchCep, in order
    locOut,     \* Service B: what the location service answered
    weatherArg, \* Service B: the localities passed to GetWeather, in order
    weatherOut, \* Service B: what the weather service answered
    cepIn,      \* validator harness: the string under test
    cepOut,     \* validator harness: the validators' verdicts
    spans,      \* the spans each request's handlers started, in start order
    aClock,     \* seconds since Service A's client.Do began (while it waits)
    bClock      \* seconds since Service B's current external call began

vars == <<aPc, aReq, aResp, aSteps, bPc, bReq, bResp, bSteps,
          locArg, locOut, weatherArg, weatherOut, cepIn, cepOut,
          spans, aClock, bClock>>

aVars == <<aPc, aReq, aResp, aSteps>>
bVars == <<bPc, bReq, bResp, bSteps, locArg, locOut, weatherArg, weatherOut>>
cepVars == <<cepIn, cepOut>>
clockVars == <<aClock, bClock>>

(***************************************************************************)
(* Bounds                                                                  *)
(***************************************************************************)
NReq == 2       \* request ids
MaxLen == 9     \* longest string given to the validator harness

Reqs == 1..NReq

(***************************************************************************)
(* Status codes (net/http)                                                 *)
(***************************************************************************)
StatusOK == 200
StatusBadRequest == 400
StatusNotFound == 404
StatusMethodNotAllowed == 405
StatusUnprocessableEntity == 422
StatusInternalServerError == 500

(***************************************************************************)
(* Responses                                                               *)
(***************************************************************************)
TextBody(s) == [kind |-> "text", text |-> s]
JsonBody(v) == [kind |-> "json", json |-> v]
NoBody == [kind |-> "none"]

NoResp == [status |-> 0, ctype |-> "", body |-> NoBody]

TextPlain == "text/plain; charset=utf-8"

\* http.Error(w, msg, code): plain-text content type, the status, and
\* fmt.Fprintln(w, msg), i.e. the message followed by a newline.
HttpError(msg, code) ==
    [status |-> code, ctype |-> TextPlain, body |-> TextBody(msg \o "\n")]

(***************************************************************************)
(* isValidCep: regexp.MatchString(`^\d{8}$`, cep)                          *)
(***************************************************************************)
Digits == {"0", "1", "2", "3", "4", "5", "6", "7", "8", "9"}

\* \d : Go's regexp syntax (RE2) matches ASCII digits only
IsDigitClass(c) == c \in Digits

\* \d{n} followed by $ , tried at position pos (1-based) of s.  Without the
\* m flag, $ matches only at the end of the text.
RECURSIVE MatchDigitsThenEnd(_, _, _)
MatchDigitsThenEnd(s, pos, n) ==
    IF n = 0
    THEN pos = Len(s) + 1
    ELSE /\ pos <= Len(s)
         /\ IsDigitClass(s[pos])
         /\ MatchDigitsThenEnd(s, pos + 1, n - 1)

\* \d{n} with no end anchor: matches whenever n digits start at pos
RECURSIVE MatchDigits(_, _, _)
MatchDigits(s, pos, n) ==
    IF n = 0
    THEN TRUE
    ELSE /\ pos <= Len(s)
         /\ IsDigitClass(s[pos])
         /\ MatchDigits(s, pos + 1, n - 1)

isValidCepA_noEndAnchor(cep) == MatchDigits(cep, 1, 8)

\* servico_a: ^ pins the match to the start of the text
isValidCepA(cep) == MatchDigitsThenEnd(cep, 1, 8)

\* servico_b: the same expression
isValidCepB(cep) == MatchDigitsThenEnd(cep, 1, 8)

(***************************************************************************)
(* Inputs                                                                  *)
(***************************************************************************)
Cep01001000 == <<"0", "1", "0", "0", "1", "0", "0", "0">>
Cep123 == <<"1", "2", "3">>
Cep1234567a == <<"1", "2", "3", "4", "5", "6", "7", "a">>

\* the codes clients post to Service A
SampleCeps == {Cep01001000, Cep123, Cep1234567a, <<>>}


\* A request body as json.Unmarshal sees it:
\*   unreadable  io.ReadAll fails
\*   syntax      the bytes are not JSON
\*   array       a JSON value that is neither an object nor null
\*   null        the JSON value null
\*   object      a JSON object; cepKind tells what its "cep" member is
\*               (absent, null, number, string), cep is the string's value
Body(k) == [kind |-> k, cepKind |-> "absent", cep |-> <<>>]
Obj(ck) == [kind |-> "object", cepKind |-> ck, cep |-> <<>>]
ObjStr(c) == [kind |-> "object", cepKind |-> "string", cep |-> c]

Bodies ==
    {Body("unreadable"), Body("syntax"), Body("array"), Body("null"),
     Obj("absent"), Obj("null"), Obj("number")}
    \cup {ObjStr(c) : c \in SampleCeps}

\* the requests clients send to Service A: a POST with each body, and a GET
\* with a malformed body, with an invalid code and with a valid code
Requests ==
    {[method |-> "POST", body |-> b] : b \in Bodies}
    \cup {[method |-> "GET", body |-> b] :
             b \in {Body("syntax"), ObjStr(Cep123), ObjStr(Cep01001000)}}

\* the codes clients send to Service B directly
DirectCeps == {Cep01001000, Cep1234567a, <<>>}

NoReqA == [method |-> "", body |-> Body("none")]

(***************************************************************************)
(* Spans (the tracer the services are given)                               *)
(***************************************************************************)
\* tracer.Start(ctx, name): a span whose parent is the span ctx carries.  A
\* context is modelled by the name of the span it carries.
StartSpan(ss, name, ctx) ==
    Append(ss, [name |-> name, parent |-> ctx, error |-> FALSE, ended |-> FALSE])

\* span.RecordError(err)
RecordError(ss, name) ==
    [i \in DOMAIN ss |->
        IF ss[i].name = name THEN [ss[i] EXCEPT !.error = TRUE] ELSE ss[i]]

\* span.End()
EndSpan(ss, name) ==
    [i \in DOMAIN ss |->
        IF ss[i].name = name THEN [ss[i] EXCEPT !.ended = TRUE] ELSE ss[i]]

\* r.Context() in Service A: it carries the span of otelhttp.NewHandler(...,
\* "CepHandler")
RequestCtxA == "CepHandler"

\* r.Context() in Service B: it carries the span of otelhttp.NewHandler(...,
\* "WeatherHandler")
RequestCtxB == "WeatherHandler"

SpanHandleCep == "handleCepRequest"
SpanForward == "forwardRequestToServiceB"
SpanWeatherHandler == "weatherHandler-orchestration"
SpanSearchCep == "get-location-from-cep-api (SearchCep)"
SpanGetWeather == "get-weather-from-weather-api (GetWeather)"

(***************************************************************************)
(* Service A: handleCepRequest                                             *)
(***************************************************************************)
MethodAllowed_any(method) == TRUE

\* r.Method != http.MethodPost
MethodAllowed(method) == method = "POST"

\* io.ReadAll(r.Body)
ReadAllFails(body) == body.kind = "unreadable"

Unmarshal_lenient(body) ==
    [err |-> body.kind \in {"syntax"},
     input |-> [Cep |-> IF body.kind = "object" /\ body.cepKind = "string"
                        THEN body.cep ELSE <<>>]]

\* json.Unmarshal(body, &input) with input CepInput{Cep string `json:"cep"`}:
\* an error for bytes that are not JSON, for a top-level value that is not an
\* object (null excepted: it leaves input untouched) and for a "cep" member
\* that is not a string (null excepted); an absent or null member leaves
\* Cep = "".
Unmarshal(body) ==
    [err |-> \/ body.kind \in {"syntax", "array"}
             \/ body.kind = "object" /\ body.cepKind = "number",
     input |-> [Cep |-> IF body.kind = "object" /\ body.cepKind = "string"
                        THEN body.cep ELSE <<>>]]

InvalidZipcodeA_httpError == HttpError("invalid zipcode", StatusUnprocessableEntity)

\* w.WriteHeader(422); w.Write([]byte("invalid zipcode")): the bytes as
\* given; the content type is the one net/http detects for them.
InvalidZipcodeA ==
    [status |-> StatusUnprocessableEntity, ctype |-> TextPlain,
     body |-> TextBody("invalid zipcode")]

\* The handler up to the point where it either answers or calls
\* forwardRequestToServiceB: the steps taken, the answer (if any) and the code
\* handed to forwardRequestToServiceB (if any).
handleCepRequestOutcome(req) ==
    IF ~MethodAllowed(req.method)
    THEN [steps |-> <<"method">>, forward |-> FALSE, cep |-> <<>>,
          resp |-> HttpError("Method not allowed", StatusMethodNotAllowed)]
    ELSE IF ReadAllFails(req.body)
    THEN [steps |-> <<"method", "read">>, forward |-> FALSE, cep |-> <<>>,
          resp |-> HttpError("Error reading request body", StatusBadRequest)]
    ELSE IF Unmarshal(req.body).err
    THEN [steps |-> <<"method", "read", "unmarshal">>,
          forward |-> FALSE, cep |-> <<>>,
          resp |-> HttpError("Error decoding JSON", StatusBadRequest)]
    ELSE IF ~isValidCepA(Unmarshal(req.body).input.Cep)
    THEN [steps |-> <<"method", "read", "unmarshal", "validate">>,
          forward |-> FALSE, cep |-> <<>>,
          resp |-> InvalidZipcodeA]
    ELSE [steps |-> <<"method", "read", "unmarshal", "validate", "forward">>,
          forward |-> TRUE, cep |-> Unmarshal(req.body).input.Cep,
          resp |-> NoResp]

\* fmt.Sprintf("%s/weather/%s", serviceB_URL, cep): the path of the request
WeatherPrefix == <<"/", "w", "e", "a", "t", "h", "e", "r", "/">>
TargetPath_noSlash(cep) == SubSeq(WeatherPrefix, 1, Len(WeatherPrefix) - 1) \o cep

TargetPath(cep) == WeatherPrefix \o cep

NoReqB == [path |-> <<>>, origin |-> ""]

\* forwardRequestToServiceB: ctx := r.Context(); tracer.Start(ctx, ...).
\* handleCepRequest dropped the context tracer.Start returned to it
\* (`_, span := tracer.Start(ctx, "handleCepRequest")`), so the context used
\* here is the request's own.
ForwardCtx(requestCtx, handlerSpan) == requestCtx

\* the spans of handleCepRequest up to its answer or to client.Do: none when
\* the method check fails (it precedes tracer.Start); the deferred span.End()
\* runs when the handler returns
SpansHandleCep(out) ==
    IF out.steps = <<"method">>
    THEN <<>>
    ELSE IF out.forward
    THEN StartSpan(StartSpan(<<>>, SpanHandleCep, RequestCtxA),
                   SpanForward, ForwardCtx(RequestCtxA, SpanHandleCep))
    ELSE EndSpan(StartSpan(<<>>, SpanHandleCep, RequestCtxA), SpanHandleCep)

\* forwardRequestToServiceB returns, then handleCepRequest: both deferred
\* span.End() run; neither return path calls span.RecordError
SpansForwardReturn(ss) == EndSpan(EndSpan(ss, SpanForward), SpanHandleCep)

handleCepRequest(r) ==
    /\ aPc[r] = "idle"
    /\ bPc[r] = "idle"
    /\ \E req \in Requests :
         LET out == handleCepRequestOutcome(req)
         IN /\ aReq' = [aReq EXCEPT ![r] = req]
            /\ aSteps' = [aSteps EXCEPT ![r] = out.steps]
            /\ IF out.forward
               THEN /\ aPc' = [aPc EXCEPT ![r] = "waitB"]
                    /\ aResp' = aResp
                    /\ bPc' = [bPc EXCEPT ![r] = "pending"]
                    /\ bReq' = [bReq EXCEPT ![r] =
                                 [path |-> TargetPath(out.cep), origin |-> "A"]]
               ELSE /\ aPc' = [aPc EXCEPT ![r] = "done"]
                    /\ aResp' = [aResp EXCEPT ![r] = out.resp]
                    /\ UNCHANGED <<bPc, bReq>>
            /\ spans' = [spans EXCEPT ![r] = SpansHandleCep(out)]
    /\ UNCHANGED <<bResp, bSteps, locArg, locOut, weatherArg, weatherOut>>
    /\ UNCHANGED cepVars

Relay_ok(resp) == [status |-> StatusOK, ctype |-> resp.ctype, body |-> resp.body]

\* w.Header().Set("Content-Type", resp.Header.Get("Content-Type"));
\* w.WriteHeader(resp.StatusCode); io.Copy(w, resp.Body)
Relay(resp) == [status |-> resp.status, ctype |-> resp.ctype, body |-> resp.body]

\* forwardRequestToServiceB, client.Do returned a response
forwardReceive(r) ==
    /\ aPc[r] = "waitB"
    /\ bPc[r] = "done"
    /\ aPc' = [aPc EXCEPT ![r] = "done"]
    /\ aResp' = [aResp EXCEPT ![r] = Relay(bResp[r])]
    /\ aSteps' = [aSteps EXCEPT ![r] = @ \o <<"relay">>]
    /\ spans' = [spans EXCEPT ![r] = SpansForwardReturn(@)]
    /\ UNCHANGED aReq
    /\ UNCHANGED bVars
    /\ UNCHANGED cepVars

\* forwardRequestToServiceB, client.Do returned an error (connection failure
\* or the client's Timeout expired before the response arrived)
forwardFail(r) ==
    /\ aPc[r] = "waitB"
    /\ aPc' = [aPc EXCEPT ![r] = "done"]
    /\ aResp' = [aResp EXCEPT ![r] =
                   HttpError("Failed to call service B", StatusInternalServerError)]
    /\ aSteps' = [aSteps EXCEPT ![r] = @ \o <<"fail">>]
    /\ spans' = [spans EXCEPT ![r] = SpansForwardReturn(@)]
    /\ UNCHANGED aReq
    /\ UNCHANGED bVars
    /\ UNCHANGED cepVars

(***************************************************************************)
(* What the external services answer                                       *)
(***************************************************************************)
\* the location service (ViaCEP) answers a call with a transport error
\* (client.Do fails: connection failure or the 5s Timeout), or with a response
\* whose body does or does not decode into Local{Localidade, Erro}
LocTransport ==
    [kind |-> "transport", status |-> 0, decodes |-> FALSE,
     erro |-> FALSE, localidade |-> ""]
LocGarbage(st) ==
    [kind |-> "response", status |-> st, decodes |-> FALSE,
     erro |-> FALSE, localidade |-> ""]
LocDecoded(st, e, l) ==
    [kind |-> "response", status |-> st, decodes |-> TRUE,
     erro |-> e, localidade |-> l]

LocationOutcomes ==
    {LocTransport, LocGarbage(400), LocDecoded(200, TRUE, ""),
     LocDecoded(200, FALSE, "Florianopolis"), LocDecoded(400, FALSE, "")}

NoLocOut ==
    [kind |-> "none", status |-> 0, decodes |-> FALSE,
     erro |-> FALSE, localidade |-> ""]

\* temperatures in 1/100 degree Celsius
Temps == {2850, -50}

\* the weather service answers with a transport error, or with a response
\* that has a status and a body that does or does not decode into Clima
WeatherTransport ==
    [kind |-> "transport", status |-> 0, decodes |-> FALSE, temp_c |-> 0]
WeatherResponse(st, d, c) ==
    [kind |-> "response", status |-> st, decodes |-> d, temp_c |-> c]

WeatherOutcomes ==
    {WeatherTransport, WeatherResponse(401, TRUE, 0),
     WeatherResponse(200, FALSE, 0)}
    \cup {WeatherResponse(200, TRUE, c) : c \in Temps}

NoWeatherOut == [kind |-> "none", status |-> 0, decodes |-> FALSE, temp_c |-> 0]

\* error texts of the libraries
ErrLocTransport == "Get \"https://viacep.com.br/ws/\": context deadline exceeded"
ErrWeatherTransport == "Get \"https://api.weatherapi.com/v1/current.json\": context deadline exceeded"
ErrDecode == "invalid character '<' looking for beginning of value"

\* fmt's %d
DigitText(d) ==
    CASE d = 0 -> "0" [] d = 1 -> "1" [] d = 2 -> "2" [] d = 3 -> "3"
      [] d = 4 -> "4" [] d = 5 -> "5" [] d = 6 -> "6" [] d = 7 -> "7"
      [] d = 8 -> "8" [] d = 9 -> "9"

RECURSIVE Itoa(_)
Itoa(n) == IF n < 10 THEN DigitText(n) ELSE Itoa(n \div 10) \o DigitText(n % 10)

(***************************************************************************)
(* Service B: SearchCep, GetWeather                                        *)
(***************************************************************************)
NoLocal == [Localidade |-> "", Erro |-> FALSE]

\* the (*Local, error) pair; err = "" stands for a nil error
SearchCep_ignoreErro(ans) ==
    IF ans.kind = "transport"
    THEN [err |-> ErrLocTransport, local |-> NoLocal]
    ELSE IF ~ans.decodes
    THEN [err |-> ErrDecode, local |-> NoLocal]
    ELSE [err |-> "", local |-> [Localidade |-> ans.localidade, Erro |-> ans.erro]]

SearchCep_requireLocality(ans) ==
    IF ans.kind = "transport"
    THEN [err |-> ErrLocTransport, local |-> NoLocal]
    ELSE IF ~ans.decodes
    THEN [err |-> ErrDecode, local |-> NoLocal]
    ELSE IF ans.erro \/ ans.status # StatusOK \/ ans.localidade = ""
    THEN [err |-> "can not find zipcode", local |-> NoLocal]
    ELSE [err |-> "", local |-> [Localidade |-> ans.localidade, Erro |-> ans.erro]]

SearchCep(ans) ==
    IF ans.kind = "transport"
    THEN [err |-> ErrLocTransport, local |-> NoLocal]
    ELSE IF ~ans.decodes
    THEN [err |-> ErrDecode, local |-> NoLocal]
    ELSE IF ans.erro
    THEN [err |-> "can not find zipcode", local |-> NoLocal]
    ELSE [err |-> "", local |-> [Localidade |-> ans.localidade, Erro |-> ans.erro]]

\* the (*Clima, error) pair
GetWeather(ans) ==
    IF ans.kind = "transport"
    THEN [err |-> ErrWeatherTransport, TempC |-> 0]
    ELSE IF ans.status # StatusOK
    THEN [err |-> "weather API returned status " \o Itoa(ans.status), TempC |-> 0]
    ELSE IF ~ans.decodes
    THEN [err |-> ErrDecode, TempC |-> 0]
    ELSE [err |-> "", TempC |-> ans.temp_c]

(***************************************************************************)
(* Service B: weatherHandler                                               *)
(***************************************************************************)
\* r.URL.Path[len("/weather/"):]
CepFromPath(path) == SubSeq(path, Len(WeatherPrefix) + 1, Len(path))

\* tempC*1.8 + 32, in 1/100 degree
Fahrenheit(tempC) == (tempC * 18) \div 10 + 3200

Kelvin_precise(tempC) == tempC + 27315

\* tempC + 273, in 1/100 degree
Kelvin(tempC) == tempC + 27300

TemperaturaFinal(city, tempC) ==
    [city |-> city, temp_C |-> tempC,
     temp_F |-> Fahrenheit(tempC), temp_K |-> Kelvin(tempC)]

ValidateStep_accept(path) == [next |-> "SearchCep", resp |-> NoResp]

\* lines 135-141: what the handler does after extracting the code
ValidateStep(path) ==
    IF ~isValidCepB(CepFromPath(path))
    THEN [next |-> "respond",
          resp |-> HttpError("invalid zipcode", StatusUnprocessableEntity)]
    ELSE [next |-> "SearchCep", resp |-> NoResp]

LocationErrorStatus_notFound(msg) == StatusNotFound

\* err.Error() == "can not find zipcode"
LocationErrorStatus(msg) ==
    IF msg = "can not find zipcode"
    THEN StatusNotFound
    ELSE StatusInternalServerError

AfterSearchCep_continue(res) ==
    [next |-> "GetWeather", resp |-> NoResp, city |-> res.local.Localidade]

\* lines 143-154: what the handler does with SearchCep's result
AfterSearchCep(res) ==
    IF res.err # ""
    THEN [next |-> "respond", city |-> "",
          resp |-> HttpError(res.err, LocationErrorStatus(res.err))]
    ELSE [next |-> "GetWeather", resp |-> NoResp, city |-> res.local.Localidade]

AfterGetWeather_sharedLocal(local, res) ==
    IF res.err # ""
    THEN [next |-> "respond",
          resp |-> HttpError(res.err, StatusInternalServerError)]
    ELSE [next |-> "respond",
          resp |-> [status |-> StatusOK, ctype |-> "application/json",
                    body |-> JsonBody(TemperaturaFinal(locOut[NReq].localidade,
                                                       res.TempC))]]

\* lines 154-174: what the handler does with GetWeather's result
AfterGetWeather(local, res) ==
    IF res.err # ""
    THEN [next |-> "respond",
          resp |-> HttpError(res.err, StatusInternalServerError)]
    ELSE [next |-> "respond",
          resp |-> [status |-> StatusOK, ctype |-> "application/json",
                    body |-> JsonBody(TemperaturaFinal(local.Localidade, res.TempC))]]

\* weatherHandler up to its answer or to client.Do in SearchCep; SearchCep is
\* given the handler's ctx, which is r.Context()
SpansValidate(ss, step) ==
    IF step.next = "respond"
    THEN EndSpan(StartSpan(ss, SpanWeatherHandler, RequestCtxB), SpanWeatherHandler)
    ELSE StartSpan(StartSpan(ss, SpanWeatherHandler, RequestCtxB),
                   SpanSearchCep, RequestCtxB)

\* SearchCep calls span.RecordError on a client.Do error and on a decode
\* error, not when it reports "can not find zipcode"
SearchCepRecords(ans) == ans.kind = "transport" \/ ~ans.decodes

\* SearchCep returns (RecordError, deferred End); weatherHandler answers or
\* calls GetWeather with the same ctx
SpansSearchCepReturn(ss, ans, step) ==
    LET rec == IF SearchCepRecords(ans) THEN RecordError(ss, SpanSearchCep) ELSE ss
        ret == EndSpan(rec, SpanSearchCep)
    IN IF step.next = "respond"
       THEN EndSpan(ret, SpanWeatherHandler)
       ELSE StartSpan(ret, SpanGetWeather, RequestCtxB)

\* GetWeather calls span.RecordError on each of its error returns
GetWeatherRecords(ans) ==
    ans.kind = "transport" \/ ans.status # StatusOK \/ ~ans.decodes

\* GetWeather returns; weatherHandler answers
SpansGetWeatherReturn(ss, ans) ==
    LET rec == IF GetWeatherRecords(ans) THEN RecordError(ss, SpanGetWeather) ELSE ss
    IN EndSpan(EndSpan(rec, SpanGetWeather), SpanWeatherHandler)

\* a client calls Service B directly
clientGetB(r) ==
    /\ aPc[r] = "idle"
    /\ bPc[r] = "idle"
    /\ \E c \in DirectCeps :
         bReq' = [bReq EXCEPT ![r] = [path |-> TargetPath(c), origin |-> "client"]]
    /\ bPc' = [bPc EXCEPT ![r] = "pending"]
    /\ UNCHANGED <<bResp, bSteps, locArg, locOut, weatherArg, weatherOut, spans>>
    /\ UNCHANGED aVars
    /\ UNCHANGED cepVars

\* the handler's move after a step: answer, or issue the next call
Proceed(r, step, log, cep, city) ==
    /\ bSteps' = [bSteps EXCEPT ![r] = @ \o log \o <<step.next>>]
    /\ bPc' = [bPc EXCEPT ![r] = IF step.next = "respond" THEN "done" ELSE step.next]
    /\ bResp' = [bResp EXCEPT ![r] = step.resp]
    /\ locArg' = [locArg EXCEPT ![r] =
                    IF step.next = "SearchCep" THEN @ \o <<cep>> ELSE @]
    /\ weatherArg' = [weatherArg EXCEPT ![r] =
                    IF step.next = "GetWeather" THEN @ \o <<city>> ELSE @]

\* weatherHandler from its entry to the call of SearchCep
weatherHandler(r) ==
    /\ bPc[r] = "pending"
    /\ Proceed(r, ValidateStep(bReq[r].path), <<"validate">>,
               CepFromPath(bReq[r].path), "")
    /\ spans' = [spans EXCEPT ![r] = SpansValidate(@, ValidateStep(bReq[r].path))]
    /\ UNCHANGED <<bReq, locOut, weatherOut>>
    /\ UNCHANGED aVars
    /\ UNCHANGED cepVars

\* SearchCep returns; weatherHandler goes on to the call of GetWeather
searchCepReturn(r) ==
    /\ bPc[r] = "SearchCep"
    /\ \E ans \in LocationOutcomes :
         /\ locOut' = [locOut EXCEPT ![r] = ans]
         /\ Proceed(r, AfterSearchCep(SearchCep(ans)), <<>>,
                    CepFromPath(bReq[r].path),
                    AfterSearchCep(SearchCep(ans)).city)
         /\ spans' = [spans EXCEPT ![r] =
                        SpansSearchCepReturn(@, ans, AfterSearchCep(SearchCep(ans)))]
    /\ UNCHANGED <<bReq, weatherOut>>
    /\ UNCHANGED aVars
    /\ UNCHANGED cepVars

\* GetWeather returns; weatherHandler writes the response
getWeatherReturn(r) ==
    /\ bPc[r] = "GetWeather"
    /\ \E ans \in WeatherOutcomes :
         /\ weatherOut' = [weatherOut EXCEPT ![r] = ans]
         /\ Proceed(r, AfterGetWeather(SearchCep(locOut[r]).local, GetWeather(ans)),
                    <<>>, <<>>, "")
         /\ spans' = [spans EXCEPT ![r] = SpansGetWeatherReturn(@, ans)]
    /\ UNCHANGED <<bReq, locOut>>
    /\ UNCHANGED aVars
    /\ UNCHANGED cepVars

(***************************************************************************)
(* The system                                                              *)
(***************************************************************************)
Init ==
    /\ aPc = [r \in Reqs |-> "idle"]
    /\ aReq = [r \in Reqs |-> NoReqA]
    /\ aResp = [r \in Reqs |-> NoResp]
    /\ aSteps = [r \in Reqs |-> <<>>]
    /\ bPc = [r \in Reqs |-> "idle"]
    /\ bReq = [r \in Reqs |-> NoReqB]
    /\ bResp = [r \in Reqs |-> NoResp]
    /\ bSteps = [r \in Reqs |-> <<>>]
    /\ locArg = [r \in Reqs |-> <<>>]
    /\ locOut = [r \in Reqs |-> NoLocOut]
    /\ weatherArg = [r \in Reqs |-> <<>>]
    /\ weatherOut = [r \in Reqs |-> NoWeatherOut]
    /\ cepIn = <<>>
    /\ cepOut = [applied |-> FALSE, a |-> FALSE, b |-> FALSE]
    /\ spans = [r \in Reqs |-> <<>>]
    /\ aClock = [r \in Reqs |-> 0]
    /\ bClock = [r \in Reqs |-> 0]

\* the services with time left out: a call may fail at any moment
Next ==
    \E r \in Reqs :
        \/ handleCepRequest(r) /\ UNCHANGED clockVars
        \/ forwardReceive(r) /\ UNCHANGED clockVars
        \/ forwardFail(r) /\ UNCHANGED clockVars
        \/ clientGetB(r) /\ UNCHANGED clockVars
        \/ weatherHandler(r) /\ UNCHANGED clockVars
        \/ searchCepReturn(r) /\ UNCHANGED clockVars
        \/ getWeatherReturn(r) /\ UNCHANGED clockVars

Spec == Init /\ [][Next]_vars

(***************************************************************************)
(* The validator on its own: every string over Alphabet up to MaxLen       *)
(***************************************************************************)
Alphabet == {"0", "9", "a"}

Strings == UNION {[1..n -> Alphabet] : n \in 0..MaxLen}

applyIsValidCep ==
    /\ ~cepOut.applied
    /\ cepOut' = [applied |-> TRUE, a |-> isValidCepA(cepIn), b |-> isValidCepB(cepIn)]
    /\ UNCHANGED cepIn
    /\ UNCHANGED aVars
    /\ UNCHANGED bVars
    /\ UNCHANGED <<spans, aClock, bClock>>

InitCep ==
    /\ aPc = [r \in Reqs |-> "idle"]
    /\ aReq = [r \in Reqs |-> NoReqA]
    /\ aResp = [r \in Reqs |-> NoResp]
    /\ aSteps = [r \in Reqs |-> <<>>]
    /\ bPc = [r \in Reqs |-> "idle"]
    /\ bReq = [r \in Reqs |-> NoReqB]
    /\ bResp = [r \in Reqs |-> NoResp]
    /\ bSteps = [r \in Reqs |-> <<>>]
    /\ locArg = [r \in Reqs |-> <<>>]
    /\ locOut = [r \in Reqs |-> NoLocOut]
    /\ weatherArg = [r \in Reqs |-> <<>>]
    /\ weatherOut = [r \in Reqs |-> NoWeatherOut]
    /\ cepIn \in Strings
    /\ cepOut = [applied |-> FALSE, a |-> FALSE, b |-> FALSE]
    /\ spans = [r \in Reqs |-> <<>>]
    /\ aClock = [r \in Reqs |-> 0]
    /\ bClock = [r \in Reqs |-> 0]

NextCep == applyIsValidCep

SpecCep == InitCep /\ [][NextCep]_vars

(***************************************************************************)
(* The services with time: one request, a clock in seconds.  The network   *)
(* between Service A and Service B takes no time; an external call fails   *)
(* only by its client's Timeout.                                           *)
(***************************************************************************)
\* http.Client{Timeout: 10 * time.Second} in forwardRequestToServiceB
TimeoutA == 10

\* http.Client{Timeout: 5 * time.Second} in SearchCep
TimeoutSearchCep == 5

\* http.Client{Timeout: 5 * time.Second} in GetWeather
TimeoutGetWeather == 5

TimedReqs == {1}

Deadline_none(clock, timeout) == FALSE

\* the client's timer has expired
Deadline(clock, timeout) == clock >= timeout

\* client.Do is in progress
aRunning(r) == aPc[r] = "waitB"
bRunning(r) == bPc[r] \in {"SearchCep", "GetWeather"}

\* the Timeout of the call Service B is making
CallTimeout(r) == IF bPc[r] = "SearchCep" THEN TimeoutSearchCep ELSE TimeoutGetWeather

\* a request or a response is between Service A and Service B, or waits for
\* the handler to start
InTransit(r) == bPc[r] = "pending" \/ (bPc[r] = "done" /\ aPc[r] = "waitB")

\* one second passes, unless a timer is due or a message is in transit; a
\* clock stops counting at its timeout
Tick ==
    /\ \A r \in Reqs :
         /\ ~InTransit(r)
         /\ aRunning(r) => ~Deadline(aClock[r], TimeoutA)
         /\ bRunning(r) => ~Deadline(bClock[r], CallTimeout(r))
    /\ aClock' = [r \in Reqs |->
                    IF aRunning(r) /\ aClock[r] < TimeoutA
                    THEN aClock[r] + 1 ELSE aClock[r]]
    /\ bClock' = [r \in Reqs |->
                    IF bRunning(r) /\ bClock[r] < CallTimeout(r)
                    THEN bClock[r] + 1 ELSE bClock[r]]
    /\ UNCHANGED aVars
    /\ UNCHANGED bVars
    /\ UNCHANGED cepVars
    /\ UNCHANGED spans

timedHandleCepRequest(r) ==
    /\ handleCepRequest(r)
    /\ aClock' = [aClock EXCEPT ![r] = 0]
    /\ UNCHANGED bClock

timedForwardReceive(r) ==
    /\ forwardReceive(r)
    /\ UNCHANGED clockVars

\* client.Do fails in forwardRequestToServiceB: Client.Timeout exceeded
forwardTimeout(r) ==
    /\ Deadline(aClock[r], TimeoutA)
    /\ forwardFail(r)
    /\ UNCHANGED clockVars

timedClientGetB(r) ==
    /\ clientGetB(r)
    /\ UNCHANGED clockVars

timedWeatherHandler(r) ==
    /\ weatherHandler(r)
    /\ bClock' = [bClock EXCEPT ![r] = 0]
    /\ UNCHANGED aClock

\* the location service answers before the timer expires
searchCepAnswer(r) ==
    /\ searchCepReturn(r)
    /\ locOut'[r].kind = "response"
    /\ bClock' = [bClock EXCEPT ![r] = 0]
    /\ UNCHANGED aClock

\* client.Do fails in SearchCep: Client.Timeout exceeded
searchCepTimeout(r) ==
    /\ Deadline(bClock[r], TimeoutSearchCep)
    /\ searchCepReturn(r)
    /\ locOut'[r].kind = "transport"
    /\ bClock' = [bClock EXCEPT ![r] = 0]
    /\ UNCHANGED aClock

\* the weather service answers before the timer expires
getWeatherAnswer(r) ==
    /\ getWeatherReturn(r)
    /\ weatherOut'[r].kind = "response"
    /\ bClock' = [bClock EXCEPT ![r] = 0]
    /\ UNCHANGED aClock

\* client.Do fails in GetWeather: Client.Timeout exceeded
getWeatherTimeout(r) ==
    /\ Deadline(bClock[r], TimeoutGetWeather)
    /\ getWeatherReturn(r)
    /\ weatherOut'[r].kind = "transport"
    /\ bClock' = [bClock EXCEPT ![r] = 0]
    /\ UNCHANGED aClock

NextTime ==
    \/ Tick
    \/ \E r \in TimedReqs :
          \/ timedHandleCepRequest(r)
          \/ timedForwardReceive(r)
          \/ forwardTimeout(r)
          \/ timedClientGetB(r)
          \/ timedWeatherHandler(r)
          \/ searchCepAnswer(r)
          \/ searchCepTimeout(r)
          \/ getWeatherAnswer(r)
          \/ getWeatherTimeout(r)

SpecTime == Init /\ [][NextTime]_vars

\* The handlers' goroutines run and the clients' timers fire; nothing obliges
\* an external service to answer.
FairSpecTime ==
    /\ SpecTime
    /\ WF_vars(Tick)
    /\ \A r \in TimedReqs :
         /\ WF_vars(timedWeatherHandler(r))
         /\ WF_vars(searchCepTimeout(r))
         /\ WF_vars(getWeatherTimeout(r))
         /\ WF_vars(timedForwardReceive(r))
         /\ WF_vars(forwardTimeout(r))

(***************************************************************************)
(* Properties                                                              *)
(***************************************************************************)
\* a postal code as the specification defines it: exactly 8 characters, each
\* a decimal digit
WellFormedCode(s) ==
    /\ Len(s) = 8
    /\ \A i \in 1..Len(s) : s[i] \in {"0", "1", "2", "3", "4", "5", "6", "7", "8", "9"}

Last(seq) == seq[Len(seq)]

Has(seq, x) == \E i \in 1..Len(seq) : seq[i] = x

\* Service A has answered request r
AnsweredA(r) == aPc[r] = "done"

\* Service B has answered request r
AnsweredB(r) == bPc[r] = "done"

\* Service A received Service B's response to request r
Relayed(r) == AnsweredA(r) /\ Len(aSteps[r]) > 0 /\ Last(aSteps[r]) = "relay"

\* the code in the path of the request Service B received
CodeB(r) == SubSeq(bReq[r].path, 10, Len(bReq[r].path))

\* C1: both services' isValidCep accept a string if and only if it has
\* exactly 8 characters and each of them is a decimal digit.
C1_ValidatorIffEightDigits ==
    cepOut.applied =>
        /\ cepOut.a = WellFormedCode(cepIn)
        /\ cepOut.b = WellFormedCode(cepIn)

C1_Witness ==
    /\ cepOut.applied
    /\ Len(cepIn) = 8
    /\ cepOut.a
    /\ cepOut.b

\* C2: when Service A received a response of Service B, Service A's response
\* has that response's status, Content-Type and body, whatever the status.
C2_RelayVerbatim ==
    \A r \in Reqs :
        Relayed(r) =>
            /\ aReq[r].method = "POST"
            /\ aResp[r].status = bResp[r].status
            /\ aResp[r].ctype = bResp[r].ctype
            /\ aResp[r].body = bResp[r].body

C2_Witness ==
    \E r \in Reqs :
        /\ Relayed(r)
        /\ bResp[r].status = 500
        /\ aResp[r].status = 500

\* C3: a POST whose body decodes and whose cep is not a well-formed code is
\* answered 422 with the body `invalid zipcode` exactly, and no request goes
\* to Service B.
C3_InvalidCodeAtA ==
    \A r \in Reqs :
        ( /\ AnsweredA(r)
          /\ aReq[r].method = "POST"
          /\ aReq[r].body.kind \in {"null", "object"}
          /\ aReq[r].body.cepKind # "number"
          /\ ~WellFormedCode(aReq[r].body.cep) )
        => /\ aResp[r].status = 422
           /\ aResp[r].body = TextBody("invalid zipcode")
           /\ ~Has(aSteps[r], "forward")
           /\ bPc[r] = "idle"

C3_Witness ==
    \E r \in Reqs :
        /\ AnsweredA(r)
        /\ aReq[r] = [method |-> "POST", body |-> ObjStr(Cep123)]
        /\ aResp[r].status = 422

\* C4: a request whose method is not POST is answered 405 after the method
\* check alone: the body is not read, nothing is decoded or validated, and no
\* request goes to Service B, whatever the body is.
C4_MethodFirst ==
    \A r \in Reqs :
        (aPc[r] # "idle" /\ aReq[r].method # "POST")
        => /\ AnsweredA(r)
           /\ aResp[r].status = 405
           /\ aSteps[r] = <<"method">>
           /\ bPc[r] = "idle"

C4_Witness ==
    \E r \in Reqs :
        /\ AnsweredA(r)
        /\ aReq[r].method = "GET"
        /\ aReq[r].body.kind = "syntax"
        /\ aResp[r].status = 405

\* the body is a JSON object with a string member "cep"
HasStringCep(body) == body.kind = "object" /\ body.cepKind = "string"

\* C5 as stated: a POST whose body cannot be read or is not a structured
\* payload with a string cep field is answered 400, never 422, and no request
\* goes to Service B.
C5_Original ==
    \A r \in Reqs :
        (AnsweredA(r) /\ aReq[r].method = "POST" /\ ~HasStringCep(aReq[r].body))
        => /\ aResp[r].status = 400
           /\ bPc[r] = "idle"

\* the body cannot be read, or json.Unmarshal rejects it
BodyFailure(body) ==
    \/ body.kind \in {"unreadable", "syntax", "array"}
    \/ body.kind = "object" /\ body.cepKind = "number"

\* C5 amended: a POST whose body cannot be read, is not JSON, is a JSON value
\* other than an object or null, or has a cep member that is neither a string
\* nor null is answered 400 before the validator runs and without a request
\* to Service B; a body that decodes with cep absent or null is validated as
\* the empty code and answered 422.
C5_BodyFailureFirst ==
    \A r \in Reqs :
        (AnsweredA(r) /\ aReq[r].method = "POST") =>
            /\ BodyFailure(aReq[r].body) =>
                 /\ aResp[r].status = 400
                 /\ ~Has(aSteps[r], "validate")
                 /\ bPc[r] = "idle"
            /\ (~BodyFailure(aReq[r].body) /\ ~HasStringCep(aReq[r].body)) =>
                 /\ aResp[r].status = 422
                 /\ bPc[r] = "idle"

C5_Witness ==
    \E r \in Reqs :
        /\ AnsweredA(r)
        /\ aReq[r] = [method |-> "POST", body |-> Obj("number")]
        /\ aResp[r].status = 400

\* the location service's answer to request r decoded with the not-found flag
LocNotFound(r) ==
    locOut[r].kind = "response" /\ locOut[r].decodes /\ locOut[r].erro

\* the location service's answer to request r decoded without the flag
LocFound(r) ==
    locOut[r].kind = "response" /\ locOut[r].decodes /\ ~locOut[r].erro

\* the weather service's answer to request r is a decodable success
WeatherFound(r) ==
    /\ weatherOut[r].kind = "response"
    /\ weatherOut[r].status = 200
    /\ weatherOut[r].decodes

\* C6 as stated: a valid code whose location lookup reports not-found is
\* answered by Service B with 404 and the body `can not find zipcode`,
\* without a weather call, and Service A hands the same status and body on.
C6_Original ==
    \A r \in Reqs :
        (AnsweredB(r) /\ WellFormedCode(CodeB(r)) /\ LocNotFound(r))
        => /\ bResp[r].status = 404
           /\ bResp[r].body = TextBody("can not find zipcode")
           /\ weatherArg[r] = <<>>
           /\ Relayed(r) => /\ aResp[r].status = 404
                            /\ aResp[r].body = TextBody("can not find zipcode")

\* C6 amended: the body is `can not find zipcode` followed by a newline (as
\* http.Error writes it), at Service B and, unchanged, at Service A's client;
\* the rest as stated.
C6_NotFoundPropagates ==
    \A r \in Reqs :
        (AnsweredB(r) /\ WellFormedCode(CodeB(r)) /\ LocNotFound(r))
        => /\ bResp[r].status = 404
           /\ bResp[r].body = TextBody("can not find zipcode\n")
           /\ weatherArg[r] = <<>>
           /\ ~Has(bSteps[r], "GetWeather")
           /\ Relayed(r) => /\ aResp[r].status = 404
                            /\ aResp[r].body = TextBody("can not find zipcode\n")

C6_Witness ==
    \E r \in Reqs :
        /\ Relayed(r)
        /\ LocNotFound(r)
        /\ aResp[r].status = 404

\* C7 as stated: a request to Service B whose code is not valid is answered
\* 422 with the body `invalid zipcode`, and neither external service is called.
C7_Original ==
    \A r \in Reqs :
        (AnsweredB(r) /\ ~WellFormedCode(CodeB(r)))
        => /\ bResp[r].status = 422
           /\ bResp[r].body = TextBody("invalid zipcode")
           /\ locArg[r] = <<>>
           /\ weatherArg[r] = <<>>

\* C7 amended: the body is `invalid zipcode` followed by a newline (as
\* http.Error writes it); the rest as stated.
C7_InvalidCodeAtB ==
    \A r \in Reqs :
        (bPc[r] \notin {"idle", "pending"} /\ ~WellFormedCode(CodeB(r)))
        => /\ AnsweredB(r)
           /\ bResp[r].status = 422
           /\ bResp[r].body = TextBody("invalid zipcode\n")
           /\ locArg[r] = <<>>
           /\ weatherArg[r] = <<>>
           /\ locOut[r] = NoLocOut
           /\ weatherOut[r] = NoWeatherOut

C7_Witness ==
    \E r \in Reqs :
        /\ AnsweredB(r)
        /\ CodeB(r) = Cep1234567a
        /\ bResp[r].status = 422

\* C8: when the location lookup gives locality L and the weather lookup gives
\* c degrees Celsius, Service B answers 200 with a JSON object of exactly the
\* fields city = L, temp_C = c, temp_F = c*1.8+32, temp_K = c+273, unrounded
\* (values in 1/100 degree: 10*temp_F = 18*c + 32000, temp_K = c + 27300).
C8_TemperatureReport ==
    \A r \in Reqs :
        (AnsweredB(r) /\ WellFormedCode(CodeB(r)) /\ LocFound(r) /\ WeatherFound(r))
        => /\ bResp[r].status = 200
           /\ bResp[r].body.kind = "json"
           /\ DOMAIN bResp[r].body.json = {"city", "temp_C", "temp_F", "temp_K"}
           /\ bResp[r].body.json.city = locOut[r].localidade
           /\ bResp[r].body.json.temp_C = weatherOut[r].temp_c
           /\ 10 * bResp[r].body.json.temp_F = 18 * weatherOut[r].temp_c + 32000
           /\ bResp[r].body.json.temp_K = weatherOut[r].temp_c + 27300

C8_Witness ==
    \E r \in Reqs :
        /\ AnsweredB(r)
        /\ bResp[r].status = 200
        /\ bResp[r].body.kind = "json"
        /\ bResp[r].body.json =
             [city |-> "Florianopolis", temp_C |-> 2850, temp_F |-> 8330, temp_K |-> 30150]

\* C9: in every Service B request the steps are validate, location call,
\* weather call, respond, in this order; the location call is made only for a
\* valid code and with that code, the weather call only after the location
\* call has succeeded and with its locality, each at most once, and no step
\* follows a failed one.
C9_StrictSequence ==
    \A r \in Reqs :
        /\ bSteps[r] \in {<<>>,
                          <<"validate", "respond">>,
                          <<"validate", "SearchCep">>,
                          <<"validate", "SearchCep", "respond">>,
                          <<"validate", "SearchCep", "GetWeather">>,
                          <<"validate", "SearchCep", "GetWeather", "respond">>}
        /\ Len(locArg[r]) <= 1
        /\ Len(weatherArg[r]) <= 1
        /\ Has(bSteps[r], "SearchCep") <=> locArg[r] # <<>>
        /\ Has(bSteps[r], "GetWeather") <=> weatherArg[r] # <<>>
        /\ locArg[r] # <<>> =>
             /\ WellFormedCode(CodeB(r))
             /\ locArg[r] = <<CodeB(r)>>
        /\ weatherArg[r] # <<>> =>
             /\ LocFound(r)
             /\ weatherArg[r] = <<locOut[r].localidade>>
        /\ locOut[r] # NoLocOut => locArg[r] # <<>>
        /\ weatherOut[r] # NoWeatherOut => weatherArg[r] # <<>>
        /\ (locOut[r] # NoLocOut /\ ~LocFound(r)) =>
             /\ AnsweredB(r)
             /\ weatherArg[r] = <<>>
        /\ (weatherOut[r] # NoWeatherOut) => AnsweredB(r)
        /\ AnsweredB(r) <=> Has(bSteps[r], "respond")

C9_Witness ==
    \E r \in Reqs :
        /\ bSteps[r] = <<"validate", "SearchCep", "GetWeather", "respond">>
        /\ locArg[r] = <<Cep01001000>>
        /\ weatherArg[r] = <<"Florianopolis">>

\* the http.Error rendering of a failure message
PlainText(resp, msg) ==
    /\ resp.ctype = "text/plain; charset=utf-8"
    /\ resp.body = TextBody(msg \o "\n")

\* C10: for a valid code Service B answers 404 exactly when the location
\* response was received and decoded with the not-found flag set; any other
\* failure of the location call (transport, timeout, undecodable payload) or
\* of the weather call (transport, timeout, non-success status, undecodable
\* payload) gives 500 with the failure's message as plain text, never 404 or
\* 200.
C10_FailureMapping ==
    \A r \in Reqs :
        (AnsweredB(r) /\ WellFormedCode(CodeB(r))) =>
            /\ bResp[r].status = 404 <=> LocNotFound(r)
            /\ locOut[r].kind = "transport" =>
                 /\ bResp[r].status = 500
                 /\ PlainText(bResp[r], ErrLocTransport)
            /\ (locOut[r].kind = "response" /\ ~locOut[r].decodes) =>
                 /\ bResp[r].status = 500
                 /\ PlainText(bResp[r], ErrDecode)
            /\ weatherOut[r].kind = "transport" =>
                 /\ bResp[r].status = 500
                 /\ PlainText(bResp[r], ErrWeatherTransport)
            /\ (weatherOut[r].kind = "response" /\ weatherOut[r].status = 401) =>
                 /\ bResp[r].status = 500
                 /\ PlainText(bResp[r], "weather API returned status 401")
            /\ (weatherOut[r].kind = "response" /\ weatherOut[r].status = 200
                  /\ ~weatherOut[r].decodes) =>
                 /\ bResp[r].status = 500
                 /\ PlainText(bResp[r], ErrDecode)
            /\ bResp[r].status = 200 <=> (LocFound(r) /\ WeatherFound(r))

C10_Witness ==
    \E r \in Reqs :
        /\ AnsweredB(r)
        /\ locOut[r].kind = "response"
        /\ ~locOut[r].decodes
        /\ bResp[r].status = 500

\* Service B answered request r and none of its external calls timed out
CompletedInBounds(r) ==
    /\ bPc[r] = "done"
    /\ locOut[r].kind # "transport"
    /\ weatherOut[r].kind # "transport"

\* Service A's client.Do to Service B fails in this step
CancelsDownstream(r) ==
    /\ aPc[r] = "waitB"
    /\ aPc'[r] = "done"
    /\ Last(aSteps'[r]) = "fail"

\* C11: Service A's 10 s bound exceeds Service B's worst case (a location
\* call within 5 s, then a weather call within 5 s), so Service A never
\* cancels its call and answers 500 when Service B has completed the request
\* within its own per-call bounds.
C11_NoSpuriousCancel ==
    [][\A r \in Reqs : CancelsDownstream(r) => ~CompletedInBounds(r)]_vars

C11_Witness ==
    \E r \in Reqs :
        /\ CompletedInBounds(r)
        /\ AnsweredA(r)
        /\ Last(aSteps[r]) = "fail"

\* everything the services hold about request r
ReqState(r) ==
    <<aPc[r], aReq[r], aResp[r], aSteps[r], bPc[r], bReq[r], bResp[r], bSteps[r],
      locArg[r], locOut[r], weatherArg[r], weatherOut[r], spans[r]>>

\* what Service A's call to Service B gave request r: a response, an error,
\* or nothing (no call)
DownstreamResult(r) ==
    IF Has(aSteps[r], "relay") THEN <<"response", bResp[r]>>
    ELSE IF Has(aSteps[r], "fail") THEN <<"error">>
    ELSE <<"none">>

\* two requests Service B answered got the same request and the same answers
\* from the location and the weather service
SameInputB(r1, r2) ==
    /\ AnsweredB(r1) /\ AnsweredB(r2)
    /\ bReq[r1].path = bReq[r2].path
    /\ locOut[r1] = locOut[r2]
    /\ weatherOut[r1] = weatherOut[r2]

\* two requests Service A answered got the same request and the same result
\* of the call to Service B
SameInputA(r1, r2) ==
    /\ AnsweredA(r1) /\ AnsweredA(r2)
    /\ aReq[r1] = aReq[r2]
    /\ DownstreamResult(r1) = DownstreamResult(r2)

\* C12: in every interleaving of the requests, a request's response (status,
\* content type, body) depends only on its own input and on the dependency
\* responses it was given: two requests with the same input and the same
\* dependency responses have the same response, whatever happened to other
\* requests in between, and a step of one request neither writes another
\* request's state nor changes a response already written.
C12_PerRequestFunction ==
    /\ [](\A r1, r2 \in Reqs :
            /\ SameInputB(r1, r2) => bResp[r1] = bResp[r2]
            /\ SameInputA(r1, r2) => aResp[r1] = aResp[r2])
    /\ [][/\ Cardinality({r \in Reqs : ReqState(r)' # ReqState(r)}) <= 1
           /\ \A r \in Reqs :
                 /\ AnsweredB(r) => bResp'[r] = bResp[r]
                 /\ AnsweredA(r) => aResp'[r] = aResp[r]]_vars

C12_Witness ==
    \E r1, r2 \in Reqs :
        /\ r1 # r2
        /\ SameInputB(r1, r2)
        /\ SameInputA(r1, r2)
        /\ Relayed(r1) /\ Relayed(r2)
        /\ bResp[r1].status = StatusOK

\* the moves of weatherHandler: received (pending), validated and calling
\* the location service (SearchCep), location resolved and calling the
\* weather service (GetWeather), responded (done)
HandlerMoves ==
    {<<"idle", "pending">>,
     <<"pending", "SearchCep">>, <<"pending", "done">>,
     <<"SearchCep", "GetWeather">>, <<"SearchCep", "done">>,
     <<"GetWeather", "done">>}

\* C13: a request to Service B moves received -> validated -> location
\* resolved -> weather resolved -> responded, leaving this line only to go
\* straight to responded; the response is written exactly once, when the
\* request is responded; a call that hits its 5 s timeout makes the answer a
\* 500; and every request received is eventually responded.
C13_StateMachine ==
    /\ [][\A r \in Reqs :
            /\ bPc'[r] # bPc[r] => <<bPc[r], bPc'[r]>> \in HandlerMoves
            /\ bResp'[r] # bResp[r] => (bPc[r] # "done" /\ bPc'[r] = "done")]_vars
    /\ [](\A r \in Reqs :
            /\ AnsweredB(r) <=> bResp[r] # NoResp
            /\ (AnsweredB(r) /\ "transport" \in {locOut[r].kind, weatherOut[r].kind})
                  => bResp[r].status = StatusInternalServerError)
    /\ \A r \in Reqs : (bPc[r] = "pending") ~> (bPc[r] = "done")

C13_Witness ==
    \E r \in Reqs :
        /\ AnsweredB(r)
        /\ bSteps[r] = <<"validate", "SearchCep", "GetWeather", "respond">>
        /\ weatherOut[r].kind = "transport"
        /\ bResp[r].status = StatusInternalServerError

\* the span of request r with this name (there is at most one)
SpanOf(r, name) == CHOOSE sp \in {spans[r][i] : i \in DOMAIN spans[r]} : sp.name = name

HasSpan(r, name) == \E i \in DOMAIN spans[r] : spans[r][i].name = name

\* C14: whenever a POST to Service A reaches the downstream call, Service A
\* has one span for the handler and one span for the downstream call, and
\* the parent of the downstream-call span is the handler span.
C14_ForwardSpanIsChild ==
    \A r \in Reqs :
        Has(aSteps[r], "forward") =>
            /\ Cardinality({i \in DOMAIN spans[r] : spans[r][i].name = SpanHandleCep}) = 1
            /\ Cardinality({i \in DOMAIN spans[r] : spans[r][i].name = SpanForward}) = 1
            /\ SpanOf(r, SpanForward).parent = SpanHandleCep

\* the call wrapped by this span of request r has failed
CallFailed(r, name) ==
    CASE name = SpanForward -> Has(aSteps[r], "fail")
      [] name = SpanSearchCep ->
            \/ locOut[r].kind = "transport"
            \/ locOut[r].kind = "response"
                 /\ (locOut[r].status # StatusOK \/ ~locOut[r].decodes)
      [] name = SpanGetWeather ->
            \/ weatherOut[r].kind = "transport"
            \/ weatherOut[r].kind = "response"
                 /\ (weatherOut[r].status # StatusOK \/ ~weatherOut[r].decodes)

\* C15: a span that wraps a call to an external dependency (Service A's call
\* to Service B, the location call, the weather call) and has ended after
\* the call failed (transport or timeout, non-success status, undecodable
\* body) carries a recorded error.
C15_FailuresRecorded ==
    \A r \in Reqs :
        \A name \in {SpanForward, SpanSearchCep, SpanGetWeather} :
            (HasSpan(r, name) /\ SpanOf(r, name).ended /\ CallFailed(r, name))
                => SpanOf(r, name).error

\* C16: the path of every request Service A sends to Service B carries the
\* code Service A validated, unmodified, and Service B's validator accepts
\* it: Service B never answers 422 to a request that came from Service A.
C16_ForwardedCodeValid ==
    \A r \in Reqs :
        bReq[r].origin = "A" =>
            /\ CepFromPath(bReq[r].path) = Unmarshal(aReq[r].body).input.Cep
            /\ isValidCepB(CepFromPath(bReq[r].path))
            /\ WellFormedCode(CepFromPath(bReq[r].path))
            /\ AnsweredB(r) => bResp[r].status # StatusUnprocessableEntity
            /\ bPc[r] # "pending" => Has(bSteps[r], "SearchCep")

C16_Witness ==
    \E r \in Reqs :
        /\ bReq[r].origin = "A"
        /\ AnsweredB(r)
        /\ bSteps[r][2] = "SearchCep"

\* C17: when the location service's response decodes, whether SearchCep
\* succeeds depends on the decoded not-found flag alone, not on the HTTP
\* status nor on the locality: with the flag false Service B calls the
\* weather service with the decoded locality, empty or not; with the flag
\* true it does not call it.
C17_LocationOutcome ==
    \A r \in Reqs :
        (locOut[r].kind = "response" /\ locOut[r].decodes) =>
            /\ SearchCep(locOut[r]).err = "" <=> ~locOut[r].erro
            /\ ~locOut[r].erro =>
                  /\ Has(bSteps[r], "GetWeather")
                  /\ weatherArg[r] = <<locOut[r].localidade>>
            /\ locOut[r].erro =>
                  /\ ~Has(bSteps[r], "GetWeather")
                  /\ weatherArg[r] = <<>>

C17_Witness ==
    \E r \in Reqs :
        /\ locOut[r] = LocDecoded(400, FALSE, "")
        /\ weatherArg[r] = <<"">>
        /\ AnsweredB(r)
        /\ bResp[r].status = StatusOK

====
